---------------------------- MODULE Spec2Model ----------------------------
(***************************************************************************)
(* Model of src/index.js: the Stremio subtitle translate addon.            *)
(*                                                                         *)
(* A JavaScript string is a sequence of one-character strings; the empty   *)
(* string is <<>>; identifiers (ids, URLs, engine names) are atoms.  Every  *)
(* handler and background job is an asynchronous function: one action is   *)
(* the resolution of the operation the function awaits, followed by the    *)
(* synchronous code up to the next await.                                  *)
(***************************************************************************)
EXTENDS Integers, Sequences, FiniteSets, TLC

\* ------------------------------------------------------------------ bounds
\* number of subtitle requests that arrive
NumReqs == 2
\* Date.now() takes the values 0..MaxClock
MaxClock == 1
\* number of times the process may stop and restart
MaxCrashes == 1

\* --------------------------------------------------------- string helpers
NL == "\n"
CR == "\r"
SP == " "
TAB == "\t"
\* null / undefined where an identifier (a URL, a message) is expected
NONE == "<none>"

Digits == {"0", "1", "2", "3", "4", "5", "6", "7", "8", "9"}

\* JavaScript whitespace, as String.prototype.trim removes it
IsSpace(c) == c \in {NL, CR, SP, TAB}

DigitVal(c) ==
  CASE c = "0" -> 0 [] c = "1" -> 1 [] c = "2" -> 2 [] c = "3" -> 3
    [] c = "4" -> 4 [] c = "5" -> 5 [] c = "6" -> 6 [] c = "7" -> 7
    [] c = "8" -> 8 [] c = "9" -> 9

DigitChar(d) ==
  CASE d = 0 -> "0" [] d = 1 -> "1" [] d = 2 -> "2" [] d = 3 -> "3"
    [] d = 4 -> "4" [] d = 5 -> "5" [] d = 6 -> "6" [] d = 7 -> "7"
    [] d = 8 -> "8" [] d = 9 -> "9"

\* String(n) for a natural number n
RECURSIVE NatToStr(_)
NatToStr(n) == IF n < 10 THEN <<DigitChar(n)>>
               ELSE NatToStr(n \div 10) \o <<DigitChar(n % 10)>>

\* s.slice(a, b) with 0-based a (inclusive) and b (exclusive), clamped
Slice(s, a, b) ==
  LET lo == IF a < 0 THEN 0 ELSE a
      hi == IF b > Len(s) THEN Len(s) ELSE b
  IN  IF hi <= lo THEN <<>> ELSE SubSeq(s, lo + 1, hi)

\* whether pat occurs in s at 1-based position i
MatchAt(s, pat, i) ==
  /\ i >= 1
  /\ i + Len(pat) - 1 <= Len(s)
  /\ \A k \in 1..Len(pat) : s[i + k - 1] = pat[k]

\* 1-based position of the first occurrence of pat in s, 0 if there is none
IndexOf(s, pat) ==
  LET hits == {i \in 1..Len(s) : MatchAt(s, pat, i)}
  IN  IF hits = {} THEN 0 ELSE CHOOSE i \in hits : \A j \in hits : i <= j

\* s.trim()
RECURSIVE TrimLeft(_)
TrimLeft(s) == IF s # <<>> /\ IsSpace(Head(s)) THEN TrimLeft(Tail(s)) ELSE s

RECURSIVE TrimRight(_)
TrimRight(s) == IF s # <<>> /\ IsSpace(s[Len(s)])
                THEN TrimRight(SubSeq(s, 1, Len(s) - 1)) ELSE s

Trim(s) == TrimRight(TrimLeft(s))

\* parts.join(sep) for a sequence of strings
RECURSIVE Join(_, _)
Join(parts, sep) ==
  IF parts = <<>> THEN <<>>
  ELSE IF Len(parts) = 1 THEN parts[1]
  ELSE parts[1] \o sep \o Join(Tail(parts), sep)

\* s.split(pat) for a literal, non-empty pattern
RECURSIVE SplitOn(_, _)
SplitOn(s, pat) ==
  LET i == IndexOf(s, pat)
  IN  IF i = 0 THEN <<s>>
      ELSE <<SubSeq(s, 1, i - 1)>> \o SplitOn(SubSeq(s, i + Len(pat), Len(s)), pat)

\* length of the match of /\r?\n/ at 1-based position i, 0 if it does not match
LineBreakAt(s, i) ==
  IF i <= Len(s) /\ s[i] = NL THEN 1
  ELSE IF i + 1 <= Len(s) /\ s[i] = CR /\ s[i + 1] = NL THEN 2
  ELSE 0

\* length of the match of /\r?\n\r?\n/ at 1-based position i, 0 if none
BlankLineAt(s, i) ==
  LET a == LineBreakAt(s, i)
      b == IF a = 0 THEN 0 ELSE LineBreakAt(s, i + a)
  IN  IF a = 0 \/ b = 0 THEN 0 ELSE a + b

\* s.split(/\r?\n/)
RECURSIVE SplitLines(_)
SplitLines(s) ==
  LET hits == {i \in 1..Len(s) : LineBreakAt(s, i) > 0}
  IN  IF hits = {} THEN <<s>>
      ELSE LET i == CHOOSE h \in hits : \A j \in hits : h <= j
           IN  <<SubSeq(s, 1, i - 1)>>
                 \o SplitLines(SubSeq(s, i + LineBreakAt(s, i), Len(s)))

\* s.split(/\r?\n\r?\n/)
RECURSIVE SplitBlocks(_)
SplitBlocks(s) ==
  LET hits == {i \in 1..Len(s) : BlankLineAt(s, i) > 0}
  IN  IF hits = {} THEN <<s>>
      ELSE LET i == CHOOSE h \in hits : \A j \in hits : h <= j
           IN  <<SubSeq(s, 1, i - 1)>>
                 \o SplitBlocks(SubSeq(s, i + BlankLineAt(s, i), Len(s)))

\* arr.filter(Boolean) for a sequence of strings: drops the empty ones
RECURSIVE FilterNonEmpty(_)
FilterNonEmpty(arr) ==
  IF arr = <<>> THEN <<>>
  ELSE IF Head(arr) = <<>> THEN FilterNonEmpty(Tail(arr))
  ELSE <<Head(arr)>> \o FilterNonEmpty(Tail(arr))

\* ------------------------------------------------------------------ codec
ARROW == <<"-", "-", ">">>

\* number of leading digits of s from 1-based position i
RECURSIVE DigitRun(_, _)
DigitRun(s, i) == IF i <= Len(s) /\ s[i] \in Digits THEN 1 + DigitRun(s, i + 1) ELSE 0

\* value of the decimal digits s[i .. i+n-1]
RECURSIVE DigitsVal(_, _, _)
DigitsVal(s, i, n) ==
  IF n = 0 THEN 0 ELSE DigitsVal(s, i, n - 1) * 10 + DigitVal(s[i + n - 1])

\* whether s[i .. i+n-1] are all digits
AllDigits(s, i, n) == i + n - 1 <= Len(s) /\ \A k \in i..(i + n - 1) : s[k] \in Digits

\* whether /(\d+):(\d{2}):(\d{2}),(\d{3})/ matches s starting at position i
\* (\d+ can only end where the ':' stands, so it takes the whole digit run)
TimeMatchAt(s, i) ==
  LET h == DigitRun(s, i)
      p == i + h
  IN  /\ h >= 1
      /\ p + 9 <= Len(s)
      /\ s[p] = ":"
      /\ AllDigits(s, p + 1, 2)
      /\ s[p + 3] = ":"
      /\ AllDigits(s, p + 4, 2)
      /\ s[p + 6] = ","
      /\ AllDigits(s, p + 7, 3)

srtTimeToMs(t) ==
  LET hits == {i \in 1..Len(t) : TimeMatchAt(t, i)}
  IN  IF hits = {} THEN 0
      ELSE LET i == CHOOSE x \in hits : \A j \in hits : x <= j
               h == DigitRun(t, i)
               p == i + h
           IN  DigitsVal(t, i, h) * 3600 * 1000
                 + DigitsVal(t, p + 1, 2) * 60 * 1000
                 + DigitsVal(t, p + 4, 2) * 1000
                 + DigitsVal(t, p + 7, 3)

\* index (1-based) of the first line that contains "-->", 0 if none
RECURSIVE FindTimeLine(_, _)
FindTimeLine(lines, k) ==
  IF k > Len(lines) THEN 0
  ELSE IF IndexOf(lines[k], ARROW) > 0 THEN k
  ELSE FindTimeLine(lines, k + 1)

\* the cues of one part of the text: one cue, or none when the part is dropped
ParseBlock(p) ==
  LET lines == FilterNonEmpty(SplitLines(p))
      tli   == FindTimeLine(lines, 1)
  IN  IF Len(lines) < 2 \/ tli = 0 THEN <<>>
      ELSE LET timeLine == Trim(lines[tli])
               ends     == SplitOn(timeLine, ARROW)
               start    == Trim(ends[1])
           IN  <<[id      |-> Trim(Join(SubSeq(lines, 1, tli - 1), <<SP>>)),
                  start   |-> start,
                  end     |-> Trim(ends[2]),
                  startMs |-> srtTimeToMs(start),
                  text    |-> Trim(Join(SubSeq(lines, tli + 1, Len(lines)), <<NL>>))]>>

RECURSIVE ParseParts(_)
ParseParts(parts) ==
  IF parts = <<>> THEN <<>>
  ELSE ParseBlock(Head(parts)) \o ParseParts(Tail(parts))

parseSRT(s) == ParseParts(SplitBlocks(s))

\* one block of buildSRT; i is the 0-based position
BuildBlock(b, i) ==
  (IF b.id # <<>> THEN b.id ELSE NatToStr(i + 1))
    \o <<NL>> \o b.start \o <<SP>> \o ARROW \o <<SP>> \o b.end
    \o <<NL>> \o b.text \o <<NL>>

\* buildSRT with a fault: the blocks are joined without the blank line
buildSRTNoBlankLine(blocks) ==
  Join([i \in 1..Len(blocks) |-> BuildBlock(blocks[i], i - 1)], <<>>)

buildSRT(blocks) ==
  Join([i \in 1..Len(blocks) |-> BuildBlock(blocks[i], i - 1)], <<NL>>)


\* ---------------------------------------------------------------- batcher
maxChars == 4000

\* One answer of a translation backend to one call: the call throws, or
\* returns a string (google_free), or returns a list (google_cloud, deepl).
Throws == [kind |-> "throw", joined |-> <<>>, arr |-> <<>>]
TextAnswer(str) == [kind |-> "text", joined |-> str, arr |-> <<>>]
ListAnswer(a) == [kind |-> "list", joined |-> <<>>, arr |-> a]

\* the batches of the loop of batchTranslateSentences, each the sequence
\* idxBatch (1-based positions in sentences) at the time it is flushed
RECURSIVE BatchLoop(_, _, _, _, _)
BatchLoop(sentences, i, idxBatch, len, flushed) ==
  IF i > Len(sentences)
  THEN IF idxBatch = <<>> THEN flushed ELSE Append(flushed, idxBatch)
  ELSE LET s == Trim(sentences[i])
       IN  IF s = <<>> THEN BatchLoop(sentences, i + 1, idxBatch, len, flushed)
           ELSE IF len + Len(s) + 1 > maxChars /\ idxBatch # <<>>
           THEN BatchLoop(sentences, i + 1, <<i>>, Len(s) + 1, Append(flushed, idxBatch))
           ELSE BatchLoop(sentences, i + 1, Append(idxBatch, i), len + Len(s) + 1, flushed)

Batches(sentences) == BatchLoop(sentences, 1, <<>>, 0, <<>>)

\* the texts of a batch: batch[k] for idxBatch[k]
BatchTexts(sentences, idxBatch) ==
  [k \in 1..Len(idxBatch) |-> Trim(sentences[idxBatch[k]])]

\* the proportional slices of the free-tier answer when its split count
\* differs from the batch size
SliceFallback(joined, n) ==
  LET q   == Len(joined) \div n
      avg == IF q > 1 THEN q ELSE 1
      cut == [i \in 1..n |-> Slice(joined, (i - 1) * avg, i * avg)]
  IN  IF Len(cut) < n THEN cut \o [k \in 1..(n - Len(cut)) |-> <<>>]
      ELSE IF Len(cut) > n THEN SubSeq(cut, 1, n)
      ELSE cut

\* outArr of flush for an answer that did not throw
OutArr(engine, batch, answer) ==
  IF engine \in {"google_cloud", "deepl"} THEN answer.arr
  ELSE LET split == SplitOn(answer.joined, <<NL>>)
       IN  IF Len(split) # Len(batch) THEN SliceFallback(answer.joined, Len(batch))
           ELSE split

\* Flush with a fault: when the call throws, the original texts of the
\* batch are stored as its outputs
FlushKeepsText(engine, sentences, idxBatch, results, answer) ==
  LET outArr == IF answer.kind = "throw" THEN BatchTexts(sentences, idxBatch)
                ELSE OutArr(engine, BatchTexts(sentences, idxBatch), answer)
  IN  [j \in 1..Len(results) |->
        IF \E k \in 1..Len(idxBatch) : idxBatch[k] = j
        THEN LET k == CHOOSE x \in 1..Len(idxBatch) : idxBatch[x] = j
             IN  IF k <= Len(outArr) THEN outArr[k] ELSE <<>>
        ELSE results[j]]

\* results after flush of idxBatch with the given answer
Flush(engine, sentences, idxBatch, results, answer) ==
  IF answer.kind = "throw" THEN results
  ELSE LET outArr == OutArr(engine, BatchTexts(sentences, idxBatch), answer)
       IN  [j \in 1..Len(results) |->
             IF \E k \in 1..Len(idxBatch) : idxBatch[k] = j
             THEN LET k == CHOOSE x \in 1..Len(idxBatch) : idxBatch[x] = j
                  IN  IF k <= Len(outArr) THEN outArr[k] ELSE <<>>
             ELSE results[j]]

\* what a faithful translation does to one character
TrChar(c) == CASE c = "a" -> "x" [] c = "b" -> "y" [] OTHER -> c

Translate(str) == [i \in 1..Len(str) |-> TrChar(str[i])]

\* the answers googleFreeTranslate can give for the request text q: the
\* request fails, the response carries no data, or it is the translation
GoogleFreeAnswers(q) == {Throws, TextAnswer(<<>>), TextAnswer(Translate(q))}

\* the answers of the list engines for a batch
ListAnswers(batch) ==
  {Throws, ListAnswer(<<>>), ListAnswer([k \in 1..Len(batch) |-> Translate(batch[k])])}

BackendAnswers(engine, batch) ==
  IF engine \in {"google_cloud", "deepl"} THEN ListAnswers(batch)
  ELSE GoogleFreeAnswers(Join(batch, <<NL>>))

\* outBlocks of the job: the translation where there is one, else the text
OutBlocks(blocks, translated) ==
  [i \in 1..Len(blocks) |->
     [blocks[i] EXCEPT !.text = IF translated[i] # <<>> THEN translated[i] ELSE @]]


\* ------------------------------------------------------------ environment
\* manifest.config defaults: the handler always takes these
to == <<"z", "h", "-", "C", "N">>
engine == "google_free"
EN == <<"e", "n">>

hashStr(str) == <<"sha1">> \o str

\* the parsed request ids: a catalog id, and an id with no imdb part that
\* carries a source URL
MovieId == [imdb_id |-> "tt1", season |-> NONE, episode |-> NONE, source |-> NONE]
SourceId == [imdb_id |-> "", season |-> NONE, episode |-> NONE, source |-> "u1"]
RequestIds == {MovieId, SourceId}

OrEmpty(x) == IF x = NONE THEN "" ELSE x

cacheKey(id) ==
  [base   |-> IF id.imdb_id # "" THEN <<id.imdb_id, OrEmpty(id.season), OrEmpty(id.episode)>>
              ELSE <<"source", id.source>>,
   to     |-> to,
   engine |-> engine]

Keys == {cacheKey(id) : id \in RequestIds}

\* key of opensub_cache
searchKey(id, lang) == <<id.imdb_id, OrEmpty(id.season), OrEmpty(id.episode), lang>>

\* the download link OpenSubtitles gives for a language
LinkFor(lang) == IF lang = EN THEN "enUrl" ELSE "zhUrl"

\* subtitle files: one cue "ab" in the source language, one block in the
\* source language with an identifier and a time line but no text, one cue
\* in the target language, and an empty file
SrtEn == <<"1", NL, "1", " ", "-", "-", ">", " ", "2", NL, "a", "b", NL>>
SrtBare == <<"1", NL, "1", " ", "-", "-", ">", " ", "2", NL>>
SrtZh == <<"1", NL, "1", " ", "-", "-", ">", " ", "2", NL, "z", NL>>
Contents(url) == IF url = "zhUrl" THEN {SrtZh, <<>>} ELSE {SrtEn, SrtBare, <<>>}

\* ------------------------------------------------------------------ state
VARIABLES
  req,      \* per request: the handler's position and local variables
            \* (epoch: the run of the process that serves it)
  task,     \* per request: the background job it launched, if any (flushed
            \* and threw count the batches sent and the "batch translate
            \* error" lines logged)
  cache,    \* table translation_cache: key -> row
  jobs,     \* table jobs: id -> row
  osCache,  \* table opensub_cache: key -> subtitle_url (fresh rows only)
  limiter,  \* the Bottleneck queue: callers in order, the head is running
  now,      \* Date.now()
  crashes,  \* how often the process has stopped
  codec,    \* one run of parseSRT / buildSRT / parseSRT on a text
  batcher   \* one call of batchTranslateSentences

vars == <<req, task, cache, jobs, osCache, limiter, now, crashes, codec, batcher>>

\* the state of the addon: handlers, jobs, tables, limiter and clock
addon == <<req, task, cache, jobs, osCache, limiter, now, crashes>>

Reqs == 1..NumReqs

NoJobId == [key |-> cacheKey(MovieId), at |-> -1]

\* the values the handler resolves with: the subtitles list (at most one
\* entry: its id, and the link, text or job id its url carries)
NoResult == <<>>
Subtitle(kind, link, srt, jobId) ==
  <<[id |-> kind, link |-> link, srt |-> srt, jobId |-> jobId]>>
TranslatedResult(srt) == Subtitle("translated", NONE, srt, NoJobId)
DirectResult(url) == Subtitle("direct-found", url, <<>>, NoJobId)
PlaceholderResult(jobId) == Subtitle("placeholder", NONE, <<>>, jobId)
EmptyResult == <<>>

IdleReq ==
  [pc |-> "idle", id |-> MovieId, epoch |-> 0, cached |-> "unread", phase |-> "none",
   subtitleUrl |-> NONE, originalText |-> <<>>, jobId |-> NoJobId,
   result |-> NoResult]

NoTask ==
  [pc |-> "none", key |-> cacheKey(MovieId), subtitleText |-> <<>>,
   jobId |-> NoJobId, flushed |-> 0, threw |-> 0, results |-> <<>>,
   finalSrt |-> <<>>, message |-> NONE]

\* no run of the codec, no call of the batcher
CodecOff == [pc |-> "off", text |-> <<>>, cues |-> <<>>, built |-> <<>>, again |-> <<>>]
BatcherOff ==
  [pc |-> "off", sentences |-> <<>>, engine |-> engine, results |-> <<>>, sent |-> <<>>]

\* the addon after construction: empty tables, nothing in flight
AddonInit ==
  /\ req = [r \in Reqs |-> IdleReq]
  /\ task = [r \in Reqs |-> NoTask]
  /\ cache = <<>>
  /\ jobs = <<>>
  /\ osCache = <<>>
  /\ limiter = <<>>
  /\ now = 0
  /\ crashes = 0

Init ==
  /\ AddonInit
  /\ codec = CodecOff
  /\ batcher = BatcherOff

\* INSERT OR REPLACE of one row
Upsert(table, k, row) == [x \in DOMAIN table \cup {k} |-> IF x = k THEN row ELSE table[x]]

\* a row of translation_cache
Row(srcHash, srt, status) ==
  [to_lang |-> to, engine |-> engine, source_hash |-> srcHash, srt |-> srt,
   status |-> status]

ReqCaller(r) == <<"req", r>>
JobCaller(r) == <<"job", r>>

\* limiter.schedule: the caller's call joins the queue
Schedule(q, caller) == Append(q, caller)

\* ---------------------------------------------------------------- handler
\* the handler is invoked with an id and awaits its read of the cache
Arrive(r) ==
  /\ req[r].pc = "idle"
  /\ IF r = 1 THEN TRUE ELSE req[r - 1].pc # "idle"
  /\ \E id \in RequestIds :
       req' = [req EXCEPT ![r] = [@ EXCEPT !.pc = "cacheGet", !.id = id,
                 !.epoch = crashes]]
  /\ UNCHANGED <<task, cache, jobs, osCache, limiter, now, crashes, codec, batcher>>

\* CacheHit with a fault: the emptiness test of the artifact is inverted
CacheHitEmptySrt(table, k) ==
  /\ k \in DOMAIN table
  /\ table[k].status = "done"
  /\ table[k].srt = <<>>

\* CacheHit with a fault: any row is served, whatever its status
CacheHitAnyRow(table, k) == k \in DOMAIN table

\* cached && cached.status === 'done' && cached.srt
CacheHit(table, k) ==
  /\ k \in DOMAIN table
  /\ table[k].status = "done"
  /\ table[k].srt # <<>>

\* what the handler read: the status of the row, or that there is none
CachedStatus(table, k) == IF k \in DOMAIN table THEN table[k].status ELSE "absent"

\* AfterSearch with a fault: with no English subtitle the handler goes on to
\* submit a job instead of returning the empty list
AfterSearchSubmit(rq, url) ==
  IF rq.phase = "target" /\ url = NONE
  THEN <<[rq EXCEPT !.pc = "osGet", !.phase = "en"], FALSE>>
  ELSE IF url = NONE
  THEN <<[rq EXCEPT !.pc = "pendingPut"], FALSE>>
  ELSE <<[rq EXCEPT !.pc = "download", !.subtitleUrl = url], TRUE>>

\* the handler after searchOpenSubtitles returned url (NONE: null, or it
\* threw and the handler caught it): <<the request, whether a download was
\* scheduled>>
AfterSearch(rq, url) ==
  IF rq.phase = "target" /\ url = NONE
  THEN <<[rq EXCEPT !.pc = "osGet", !.phase = "en"], FALSE>>
  ELSE IF url = NONE
  THEN <<[rq EXCEPT !.pc = "returned", !.result = EmptyResult], FALSE>>
  ELSE <<[rq EXCEPT !.pc = "download", !.subtitleUrl = url], TRUE>>

SearchLang(rq) == IF rq.phase = "target" THEN SplitOn(to, <<"-">>)[1] ELSE EN

\* CacheGet with a fault: a pending row blocks, the handler returns a
\* placeholder without launching a job
CacheGetPendingBlocks(r) ==
  LET rq == req[r]
      k  == cacheKey(rq.id)
  IN  /\ rq.pc = "cacheGet"
      /\ IF CacheHit(cache, k)
         THEN /\ req' = [req EXCEPT ![r] = [rq EXCEPT !.pc = "returned",
                           !.cached = CachedStatus(cache, k),
                           !.result = TranslatedResult(cache[k].srt)]]
              /\ limiter' = limiter
         ELSE IF CachedStatus(cache, k) = "pending"
         THEN /\ req' = [req EXCEPT ![r] = [rq EXCEPT !.pc = "returned",
                           !.cached = "pending",
                           !.result = PlaceholderResult(NoJobId)]]
              /\ limiter' = limiter
         ELSE IF rq.id.imdb_id # ""
         THEN /\ req' = [req EXCEPT ![r] = [rq EXCEPT !.pc = "osGet",
                           !.cached = CachedStatus(cache, k), !.phase = "target"]]
              /\ limiter' = limiter
         ELSE /\ req' = [req EXCEPT ![r] = [rq EXCEPT !.pc = "download",
                           !.cached = CachedStatus(cache, k), !.phase = "source",
                           !.subtitleUrl = rq.id.source]]
              /\ limiter' = Schedule(limiter, ReqCaller(r))
      /\ UNCHANGED <<task, cache, jobs, osCache, now, crashes, codec, batcher>>

\* the read of translation_cache resolves
CacheGet(r) ==
  LET rq == req[r]
      k  == cacheKey(rq.id)
  IN  /\ rq.pc = "cacheGet"
      /\ IF CacheHit(cache, k)
         THEN /\ req' = [req EXCEPT ![r] = [rq EXCEPT !.pc = "returned",
                           !.cached = CachedStatus(cache, k),
                           !.result = TranslatedResult(cache[k].srt)]]
              /\ limiter' = limiter
         ELSE IF rq.id.imdb_id # ""
         THEN /\ req' = [req EXCEPT ![r] = [rq EXCEPT !.pc = "osGet",
                           !.cached = CachedStatus(cache, k), !.phase = "target"]]
              /\ limiter' = limiter
         ELSE /\ req' = [req EXCEPT ![r] = [rq EXCEPT !.pc = "download",
                           !.cached = CachedStatus(cache, k), !.phase = "source",
                           !.subtitleUrl = rq.id.source]]
              /\ limiter' = Schedule(limiter, ReqCaller(r))
      /\ UNCHANGED <<task, cache, jobs, osCache, now, crashes, codec, batcher>>

\* searchOpenSubtitles: the read of opensub_cache resolves
OsGet(r) ==
  LET rq == req[r]
      sk == searchKey(rq.id, SearchLang(rq))
  IN  /\ rq.pc = "osGet"
      /\ IF sk \in DOMAIN osCache
         THEN LET nxt == AfterSearch(rq, osCache[sk])
              IN  /\ req' = [req EXCEPT ![r] = nxt[1]]
                  /\ limiter' = IF nxt[2] THEN Schedule(limiter, ReqCaller(r)) ELSE limiter
         ELSE /\ req' = [req EXCEPT ![r] = [rq EXCEPT !.pc = "osList"]]
              /\ limiter' = Schedule(limiter, ReqCaller(r))
      /\ UNCHANGED <<task, cache, jobs, osCache, now, crashes, codec, batcher>>

\* searchOpenSubtitles: the subtitle list call resolves
OsList(r) ==
  LET rq == req[r]
  IN  /\ rq.pc = "osList"
      /\ limiter # <<>> /\ Head(limiter) = ReqCaller(r)
      /\ \E outcome \in {"throw", "none", "item"} :
           IF outcome = "item"
           THEN /\ req' = [req EXCEPT ![r] = [rq EXCEPT !.pc = "osLink"]]
                /\ limiter' = Schedule(Tail(limiter), ReqCaller(r))
           ELSE LET nxt == AfterSearch(rq, NONE)
                IN  /\ req' = [req EXCEPT ![r] = nxt[1]]
                    /\ limiter' = Tail(limiter)
      /\ UNCHANGED <<task, cache, jobs, osCache, now, crashes, codec, batcher>>

\* searchOpenSubtitles: the download-link call resolves
OsLink(r) ==
  LET rq == req[r]
  IN  /\ rq.pc = "osLink"
      /\ limiter # <<>> /\ Head(limiter) = ReqCaller(r)
      /\ \E outcome \in {"throw", "nolink", "link"} :
           IF outcome = "link"
           THEN /\ req' = [req EXCEPT ![r] = [rq EXCEPT !.pc = "osPut",
                             !.subtitleUrl = LinkFor(SearchLang(rq))]]
                /\ limiter' = Tail(limiter)
           ELSE LET nxt == AfterSearch(rq, NONE)
                IN  /\ req' = [req EXCEPT ![r] = nxt[1]]
                    /\ limiter' = Tail(limiter)
      /\ UNCHANGED <<task, cache, jobs, osCache, now, crashes, codec, batcher>>

\* searchOpenSubtitles: the write of opensub_cache resolves, the link is returned
OsPut(r) ==
  LET rq  == req[r]
      nxt == AfterSearch(rq, rq.subtitleUrl)
  IN  /\ rq.pc = "osPut"
      /\ osCache' = Upsert(osCache, searchKey(rq.id, SearchLang(rq)), rq.subtitleUrl)
      /\ req' = [req EXCEPT ![r] = nxt[1]]
      /\ limiter' = IF nxt[2] THEN Schedule(limiter, ReqCaller(r)) ELSE limiter
      /\ UNCHANGED <<task, cache, jobs, now, crashes, codec, batcher>>

\* Download with a fault: the download does not wait for its turn in the
\* limiter
DownloadUnlimited(r) ==
  LET rq == req[r]
  IN  /\ rq.pc = "download"
      /\ limiter' = SelectSeq(limiter, LAMBDA c : c # ReqCaller(r))
      /\ \/ req' = [req EXCEPT ![r] = [rq EXCEPT !.pc = "rejected"]]
         \/ \E text \in Contents(rq.subtitleUrl) :
              req' = [req EXCEPT ![r] = [rq EXCEPT !.originalText = text,
                        !.pc = IF rq.phase = "target" THEN "nativePut" ELSE "pendingPut"]]
      /\ UNCHANGED <<task, cache, jobs, osCache, now, crashes, codec, batcher>>

\* downloadText resolves: it throws (the handler rejects), or gives the text
Download(r) ==
  LET rq == req[r]
  IN  /\ rq.pc = "download"
      /\ limiter # <<>> /\ Head(limiter) = ReqCaller(r)
      /\ limiter' = Tail(limiter)
      /\ \/ req' = [req EXCEPT ![r] = [rq EXCEPT !.pc = "rejected"]]
         \/ \E text \in Contents(rq.subtitleUrl) :
              req' = [req EXCEPT ![r] = [rq EXCEPT !.originalText = text,
                        !.pc = IF rq.phase = "target" THEN "nativePut" ELSE "pendingPut"]]
      /\ UNCHANGED <<task, cache, jobs, osCache, now, crashes, codec, batcher>>

\* NativePut with a fault: the link is returned and nothing is stored
NativePutNoStore(r) ==
  LET rq == req[r]
  IN  /\ rq.pc = "nativePut"
      /\ req' = [req EXCEPT ![r] = [rq EXCEPT !.pc = "returned",
                   !.result = DirectResult(rq.subtitleUrl)]]
      /\ UNCHANGED <<task, cache, jobs, osCache, limiter, now, crashes, codec, batcher>>

\* the target-language subtitle is stored as done and its link returned
NativePut(r) ==
  LET rq == req[r]
  IN  /\ rq.pc = "nativePut"
      /\ cache' = Upsert(cache, cacheKey(rq.id),
                         Row(hashStr(rq.originalText), rq.originalText, "done"))
      /\ req' = [req EXCEPT ![r] = [rq EXCEPT !.pc = "returned",
                   !.result = DirectResult(rq.subtitleUrl)]]
      /\ UNCHANGED <<task, jobs, osCache, limiter, now, crashes, codec, batcher>>

\* the pending row is written; submitTranslationJob computes the job id
PendingPut(r) ==
  LET rq == req[r]
      k  == cacheKey(rq.id)
  IN  /\ rq.pc = "pendingPut"
      /\ cache' = Upsert(cache, k, Row(hashStr(rq.originalText), <<>>, "pending"))
      /\ req' = [req EXCEPT ![r] = [rq EXCEPT !.pc = "jobInsert",
                   !.jobId = [key |-> k, at |-> now]]]
      /\ UNCHANGED <<task, jobs, osCache, limiter, now, crashes, codec, batcher>>

\* JobInsert with a fault: the handler awaits the job it started
JobInsertAwait(r) ==
  LET rq == req[r]
  IN  /\ rq.pc = "jobInsert"
      /\ jobs' = Upsert(jobs, rq.jobId,
                        [key |-> cacheKey(rq.id), status |-> "pending", message |-> NONE])
      /\ task' = [task EXCEPT ![r] = [NoTask EXCEPT !.pc = "jRunning",
                    !.key = cacheKey(rq.id), !.subtitleText = rq.originalText,
                    !.jobId = rq.jobId]]
      /\ req' = [req EXCEPT ![r] = [rq EXCEPT !.pc = "awaitJob"]]
      /\ UNCHANGED <<cache, osCache, limiter, now, crashes, codec, batcher>>

\* the job row is written, the job starts in the background, and the
\* handler returns the placeholder
JobInsert(r) ==
  LET rq == req[r]
  IN  /\ rq.pc = "jobInsert"
      /\ jobs' = Upsert(jobs, rq.jobId,
                        [key |-> cacheKey(rq.id), status |-> "pending", message |-> NONE])
      /\ task' = [task EXCEPT ![r] = [NoTask EXCEPT !.pc = "jRunning",
                    !.key = cacheKey(rq.id), !.subtitleText = rq.originalText,
                    !.jobId = rq.jobId]]
      /\ req' = [req EXCEPT ![r] = [rq EXCEPT !.pc = "returned",
                   !.result = PlaceholderResult(rq.jobId)]]
      /\ UNCHANGED <<cache, osCache, limiter, now, crashes, codec, batcher>>


\* -------------------------------------------------------------------- job
\* UPDATE jobs SET status, message WHERE id
UpdateJob(table, id, status, message) ==
  IF id \in DOMAIN table
  THEN [table EXCEPT ![id] = [@ EXCEPT !.status = status, !.message = message]]
  ELSE table

Texts(blocks) == [i \in 1..Len(blocks) |-> blocks[i].text]

\* finalSrt of the job for the translations it has
FinalSrt(subtitleText, translated) ==
  buildSRT(OutBlocks(parseSRT(subtitleText), translated))

\* the job after some flushes: it schedules the next batch, or has its
\* final text and awaits the done write
AfterFlush(t, flushed, threw, results) ==
  IF flushed < Len(Batches(Texts(parseSRT(t.subtitleText))))
  THEN [t EXCEPT !.pc = "jFlush", !.flushed = flushed, !.threw = threw,
          !.results = results]
  ELSE [t EXCEPT !.pc = "jDonePut", !.flushed = flushed, !.threw = threw,
          !.results = results, !.finalSrt = FinalSrt(t.subtitleText, results)]

\* the running update resolves; the text is parsed and batching starts
JobRunning(r) ==
  LET t     == task[r]
      texts == Texts(parseSRT(t.subtitleText))
      nxt   == AfterFlush(t, 0, 0, [i \in 1..Len(texts) |-> <<>>])
  IN  /\ t.pc = "jRunning"
      /\ jobs' = UpdateJob(jobs, t.jobId, "running", jobs[t.jobId].message)
      /\ task' = [task EXCEPT ![r] = nxt]
      /\ limiter' = IF nxt.pc = "jFlush" THEN Schedule(limiter, JobCaller(r)) ELSE limiter
      /\ UNCHANGED <<req, cache, osCache, now, crashes, codec, batcher>>

\* the translation call of one batch resolves
JobFlush(r) ==
  LET t        == task[r]
      texts    == Texts(parseSRT(t.subtitleText))
      idxBatch == Batches(texts)[t.flushed + 1]
  IN  /\ t.pc = "jFlush"
      /\ limiter # <<>> /\ Head(limiter) = JobCaller(r)
      /\ \E answer \in BackendAnswers(engine, BatchTexts(texts, idxBatch)) :
           LET nxt == AfterFlush(t, t.flushed + 1,
                                 IF answer.kind = "throw" THEN t.threw + 1 ELSE t.threw,
                                 Flush(engine, texts, idxBatch, t.results, answer))
           IN  /\ task' = [task EXCEPT ![r] = nxt]
               /\ limiter' = IF nxt.pc = "jFlush"
                             THEN Schedule(Tail(limiter), JobCaller(r))
                             ELSE Tail(limiter)
      /\ UNCHANGED <<req, cache, jobs, osCache, now, crashes, codec, batcher>>

\* the done row of translation_cache is written
JobDonePut(r) ==
  LET t == task[r]
  IN  /\ t.pc = "jDonePut"
      /\ cache' = Upsert(cache, t.key, Row(hashStr(t.subtitleText), t.finalSrt, "done"))
      /\ task' = [task EXCEPT ![r] = [t EXCEPT !.pc = "jDoneJob"]]
      /\ UNCHANGED <<req, jobs, osCache, limiter, now, crashes, codec, batcher>>

\* the job row is set to done
JobDoneJob(r) ==
  LET t == task[r]
  IN  /\ t.pc = "jDoneJob"
      /\ jobs' = UpdateJob(jobs, t.jobId, "done", "completed")
      /\ task' = [task EXCEPT ![r] = [t EXCEPT !.pc = "finished"]]
      /\ UNCHANGED <<req, cache, osCache, limiter, now, crashes, codec, batcher>>

\* a statement the try block awaits rejects: control passes to the catch
JobThrow(r) ==
  LET t == task[r]
  IN  /\ t.pc \in {"jRunning", "jDonePut", "jDoneJob"}
      /\ task' = [task EXCEPT ![r] = [t EXCEPT !.pc = "jErrPut", !.message = "store error"]]
      /\ UNCHANGED <<req, cache, jobs, osCache, limiter, now, crashes, codec, batcher>>

\* catch: the error row of translation_cache is written
JobErrPut(r) ==
  LET t == task[r]
  IN  /\ t.pc = "jErrPut"
      /\ cache' = Upsert(cache, t.key, Row(<<>>, <<>>, "error"))
      /\ task' = [task EXCEPT ![r] = [t EXCEPT !.pc = "jErrJob"]]
      /\ UNCHANGED <<req, jobs, osCache, limiter, now, crashes, codec, batcher>>

\* catch: the job row is set to error with the message
JobErrJob(r) ==
  LET t == task[r]
  IN  /\ t.pc = "jErrJob"
      /\ jobs' = UpdateJob(jobs, t.jobId, "error", t.message)
      /\ task' = [task EXCEPT ![r] = [t EXCEPT !.pc = "failed"]]
      /\ UNCHANGED <<req, cache, osCache, limiter, now, crashes, codec, batcher>>

\* ------------------------------------------------------------ environment
\* time passes
Tick ==
  /\ now < MaxClock
  /\ now' = now + 1
  /\ UNCHANGED <<req, task, cache, jobs, osCache, limiter, crashes, codec, batcher>>

\* a row of opensub_cache becomes older than six hours
Expire ==
  /\ \E sk \in DOMAIN osCache :
       osCache' = [x \in DOMAIN osCache \ {sk} |-> osCache[x]]
  /\ UNCHANGED <<req, task, cache, jobs, limiter, now, crashes, codec, batcher>>

ReqInFlight(r) == req[r].pc \notin {"idle", "returned", "rejected", "dead"}
JobInFlight(r) == task[r].pc \notin {"none", "finished", "failed", "rejected", "dead"}

\* the process stops and is started again: handlers and jobs in flight are
\* gone, the tables on disk stay
Crash ==
  /\ crashes < MaxCrashes
  /\ \E r \in Reqs : ReqInFlight(r) \/ JobInFlight(r)
  /\ crashes' = crashes + 1
  /\ req' = [r \in Reqs |-> IF ReqInFlight(r) THEN [req[r] EXCEPT !.pc = "dead"] ELSE req[r]]
  /\ task' = [r \in Reqs |-> IF JobInFlight(r) THEN [task[r] EXCEPT !.pc = "dead"] ELSE task[r]]
  /\ limiter' = <<>>
  /\ UNCHANGED <<cache, jobs, osCache, now, codec, batcher>>

Next ==
  \/ \E r \in Reqs :
       \/ Arrive(r) \/ CacheGet(r) \/ OsGet(r) \/ OsList(r) \/ OsLink(r)
       \/ OsPut(r) \/ Download(r) \/ NativePut(r) \/ PendingPut(r) \/ JobInsert(r)
       \/ JobRunning(r) \/ JobFlush(r) \/ JobDonePut(r) \/ JobDoneJob(r)
       \/ JobThrow(r) \/ JobErrPut(r) \/ JobErrJob(r)
  \/ Tick
  \/ Expire
  \/ Crash

Spec == Init /\ [][Next]_vars


\* ------------------------------------------- the addon with failing writes
\* a statement on the store that the handler awaits rejects: inside
\* searchOpenSubtitles the handler catches it and goes on as if nothing was
\* found; anywhere else the catch of the handler ends the request (at the job
\* submission the pending row is already written and no job is started)
StoreThrow(r) ==
  LET rq == req[r]
  IN  /\ rq.pc \in {"cacheGet", "osGet", "osPut", "nativePut", "pendingPut", "jobInsert"}
      /\ req' = [req EXCEPT ![r] = IF rq.pc \in {"osGet", "osPut"}
                                   THEN AfterSearch(rq, NONE)[1]
                                   ELSE [rq EXCEPT !.pc = "rejected"]]
      /\ UNCHANGED <<task, cache, jobs, osCache, limiter, now, crashes, codec, batcher>>

\* a write of the job's catch block rejects: nothing handles the rejection
\* of the job's promise, so the job writes nothing more; the runtime logs
\* it and goes on, or stops the process
JobCatchThrow(r) ==
  LET t == task[r]
  IN  /\ t.pc \in {"jErrPut", "jErrJob"}
      /\ \/ /\ task' = [task EXCEPT ![r] = [t EXCEPT !.pc = "rejected"]]
            /\ UNCHANGED <<req, limiter, crashes>>
         \/ /\ crashes < MaxCrashes
            /\ crashes' = crashes + 1
            /\ req' = [x \in Reqs |->
                         IF ReqInFlight(x) THEN [req[x] EXCEPT !.pc = "dead"] ELSE req[x]]
            /\ task' = [x \in Reqs |->
                          IF x = r THEN [t EXCEPT !.pc = "rejected"]
                          ELSE IF JobInFlight(x) THEN [task[x] EXCEPT !.pc = "dead"]
                          ELSE task[x]]
            /\ limiter' = <<>>
      /\ UNCHANGED <<cache, jobs, osCache, now, codec, batcher>>

\* the steps of the handler serving request r once it was invoked
ReqProgress(r) ==
  \/ CacheGet(r) \/ OsGet(r) \/ OsList(r) \/ OsLink(r) \/ OsPut(r) \/ Download(r)
  \/ NativePut(r) \/ PendingPut(r) \/ JobInsert(r) \/ StoreThrow(r)

\* the steps of the background job of request r in which an awaited write
\* settles: it resolves, or it rejects (at the running update, the first
\* write of the job, JobThrow is the rejection)
JobWrites(r) ==
  \/ JobDonePut(r) \/ JobDoneJob(r) \/ JobThrow(r)
  \/ JobErrPut(r) \/ JobErrJob(r) \/ JobCatchThrow(r)

\* the steps of the background job of request r
JobProgress(r) == JobRunning(r) \/ JobFlush(r) \/ JobWrites(r)

\* the process keeps running; every awaited call or write returns or fails
LiveNext ==
  \/ \E r \in Reqs : Arrive(r) \/ ReqProgress(r) \/ JobProgress(r)
  \/ Tick
  \/ Expire

\* the translation call of the job of r has its turn in the limiter
FlushReady(r) ==
  /\ task[r].pc = "jFlush"
  /\ limiter # <<>>
  /\ Head(limiter) = JobCaller(r)

\* weak fairness of JobFlush(r), which is enabled exactly when FlushReady(r)
\* holds: a translation call that has its turn settles
FlushFair(r) == []<>(~FlushReady(r)) \/ []<><<JobFlush(r)>>_vars

\* the event loop runs every continuation whose awaited operation has
\* settled, and every call and write settles
LiveSpec ==
  /\ Init
  /\ [][LiveNext]_vars
  /\ \A r \in Reqs : WF_vars(ReqProgress(r)) /\ WF_vars(JobWrites(r)) /\ FlushFair(r)

\* ------------------------------------------------- one call of the batcher
\* longest sequence of texts given to the batcher
MaxSentences == 3

Engines == {"google_free", "google_cloud", "deepl"}

\* a text of n letters
Letters(n) == [i \in 1..n |-> "a"]

\* a subtitle of two cues, the first of two lines
SrtTwoLines ==
  <<"1", NL, "1", " ", "-", "-", ">", " ", "2", NL, "a", NL, "b", NL, NL,
    "2", NL, "2", " ", "-", "-", ">", " ", "3", NL, "c", NL>>

\* the texts the batcher is called with: empty, short and padded with
\* spaces, of two lines, of half the budget and of more than the budget
TextPool ==
  {<<>>, <<SP, "b", SP>>, <<"a", NL, "b">>,
   Letters(maxChars \div 2 - 1), Letters(maxChars)}

SentenceInputs ==
  UNION {[1..n -> TextPool] : n \in 0..MaxSentences} \cup {Texts(parseSRT(SrtTwoLines))}

\* answers whose size is not the size of the batch: the free-tier text with
\* its line breaks lost or with one more at its end, a list one short or one
\* long
MismatchedAnswers(eng, batch) ==
  IF eng \in {"google_cloud", "deepl"}
  THEN LET full == [k \in 1..Len(batch) |-> Translate(batch[k])]
       IN  {ListAnswer(SubSeq(full, 1, Len(full) - 1)), ListAnswer(Append(full, <<"z">>))}
  ELSE LET t == Translate(Join(batch, <<NL>>))
       IN  {TextAnswer([i \in 1..Len(t) |-> IF t[i] = NL THEN SP ELSE t[i]]),
            TextAnswer(t \o <<NL>>)}

BatcherAnswers(eng, batch) == BackendAnswers(eng, batch) \cup MismatchedAnswers(eng, batch)

\* the batcher after the flushes so far: it awaits the flush of the next
\* batch, or returns results
BatcherNext(b, results, sent) ==
  [b EXCEPT !.pc = IF Len(sent) < Len(Batches(b.sentences)) THEN "flush" ELSE "returned",
            !.results = results, !.sent = sent]

\* batchTranslateSentences is called: results is filled with '' and the loop
\* runs up to the first flush that has a batch
BatcherCall ==
  /\ batcher.pc = "called"
  /\ batcher' = BatcherNext(batcher, [i \in 1..Len(batcher.sentences) |-> <<>>], <<>>)
  /\ UNCHANGED <<addon, codec>>

\* the backend call of the batch in flight resolves; flush stores its
\* outputs and the loop runs up to the next flush
BatcherFlush ==
  LET idxBatch == Batches(batcher.sentences)[Len(batcher.sent) + 1]
      batch    == BatchTexts(batcher.sentences, idxBatch)
  IN  /\ batcher.pc = "flush"
      /\ \E answer \in BatcherAnswers(batcher.engine, batch) :
           batcher' = BatcherNext(batcher,
                        Flush(batcher.engine, batcher.sentences, idxBatch,
                              batcher.results, answer),
                        Append(batcher.sent,
                               [idxBatch |-> idxBatch, batch |-> batch, answer |-> answer]))
      /\ UNCHANGED <<addon, codec>>

BatcherInit ==
  /\ AddonInit
  /\ codec = CodecOff
  /\ batcher \in {[BatcherOff EXCEPT !.pc = "called", !.sentences = ss, !.engine = e] :
                    ss \in SentenceInputs, e \in Engines}

BatcherStep == BatcherCall \/ BatcherFlush

BatcherSpec == BatcherInit /\ [][BatcherStep]_vars


\* --------------------------------------------------- one run of the codec
\* largest number of blocks in a text given to parseSRT
MaxBlocks == 2

T1 == <<"0", "0", ":", "0", "0", ":", "0", "1", ",", "0", "0", "0">>
T2 == <<"0", "0", ":", "0", "0", ":", "0", "2", ",", "0", "0", "0">>

\* the parts of a block of a subtitle file: no identifier or one, a start
\* time (well formed or not), and a text that is missing, of one line, of
\* two lines, of two lines around a line of one space, or of two lines the
\* first of which ends in a carriage return
CueIds == {<<>>, <<"7">>}
CueStarts == {T1, T2, <<"x">>}
CueBodies ==
  {<<>>, <<"a", "b">>, <<"a", NL, "b">>, <<"a", NL, SP, NL, "b">>,
   <<"a", CR, CR, NL, "b">>}

SrcBlock(id, start, body) ==
  (IF id = <<>> THEN <<>> ELSE id \o <<NL>>)
    \o start \o <<SP>> \o ARROW \o <<SP>> \o T2
    \o (IF body = <<>> THEN <<>> ELSE <<NL>> \o body)

SrcBlocks == {SrcBlock(id, start, body) : id \in CueIds, start \in CueStarts, body \in CueBodies}

\* the blank line between two blocks
BlankLines == {<<NL, NL>>, <<CR, NL, CR, NL>>}

\* the texts given to parseSRT: the empty file, and files of blocks in any
\* order
SrtInputs ==
  {<<>>} \cup UNION {{Join(bs, sep) \o <<NL>> : bs \in [1..n -> SrcBlocks], sep \in BlankLines} :
                      n \in 1..MaxBlocks}

\* blocks = parseSRT(text)
CodecParse ==
  /\ codec.pc = "input"
  /\ codec' = [codec EXCEPT !.pc = "parsed", !.cues = parseSRT(codec.text)]
  /\ UNCHANGED <<addon, batcher>>

\* buildSRT(blocks)
CodecBuild ==
  /\ codec.pc = "parsed"
  /\ codec' = [codec EXCEPT !.pc = "built", !.built = buildSRT(codec.cues)]
  /\ UNCHANGED <<addon, batcher>>

\* parseSRT(buildSRT(blocks))
CodecReparse ==
  /\ codec.pc = "built"
  /\ codec' = [codec EXCEPT !.pc = "reparsed", !.again = parseSRT(codec.built)]
  /\ UNCHANGED <<addon, batcher>>

CodecInit ==
  /\ AddonInit
  /\ batcher = BatcherOff
  /\ codec \in {[CodecOff EXCEPT !.pc = "input", !.text = t] : t \in SrtInputs}

CodecStep == CodecParse \/ CodecBuild \/ CodecReparse

CodecSpec == CodecInit /\ [][CodecStep]_vars


\* ----------------------------------------------------------------- claims
KeyOf(r) == cacheKey(req[r].id)

\* request r takes a step of its own (not the process stopping)
ReqStep(r) == req'[r] # req[r] /\ req'[r].pc # "dead"

\* the row of k is done with a non-empty artifact
DoneEntry(k) ==
  /\ k \in DOMAIN cache
  /\ cache[k].status = "done"
  /\ cache[k].srt # <<>>

ResultIs(r, kind) == req[r].result # <<>> /\ req[r].result[1].id = kind

\* C1: for every cache key, at most one translation job for the key is in
\* flight (launched and not yet ended) at any time.
C1_AtMostOneJobPerKey ==
  \A k \in Keys : Cardinality({r \in Reqs : JobInFlight(r) /\ task[r].key = k}) <= 1

\* C2: once the row of a key is done with a non-empty artifact, no step
\* changes that row.
C2_DoneEntryNeverOverwritten ==
  [][\A k \in DOMAIN cache : DoneEntry(k) => cache'[k] = cache[k]]_vars

\* C3: a request that reads a done row with a non-empty artifact returns
\* exactly that artifact in the same step, schedules no outbound call,
\* creates no job and leaves translation_cache, jobs and opensub_cache
\* unchanged; a request that returned a cached artifact never searched,
\* downloaded or launched a job.
C3_CacheHitShortCircuits ==
  /\ [][\A r \in Reqs :
          (req[r].pc = "cacheGet" /\ DoneEntry(KeyOf(r)) /\ ReqStep(r))
          => /\ req'[r].pc = "returned"
             /\ req'[r].result = TranslatedResult(cache[KeyOf(r)].srt)
             /\ UNCHANGED <<task, cache, jobs, osCache, limiter>>]_vars
  /\ [](\A r \in Reqs :
          (req[r].pc = "returned" /\ ResultIs(r, "translated"))
          => /\ req[r].phase = "none"
             /\ req[r].subtitleUrl = NONE
             /\ req[r].jobId = NoJobId
             /\ task[r].pc = "none")

C3_Witness ==
  \E r \in Reqs :
    /\ req[r].pc = "returned"
    /\ DoneEntry(KeyOf(r))
    /\ req[r].result = TranslatedResult(cache[KeyOf(r)].srt)

AllBatchesThrew(r) == task[r].flushed >= 1 /\ task[r].threw = task[r].flushed

\* C4: a job whose every translation call threw does not record a done
\* row: it never reaches the point after its done write.
C4_AllBatchesFailedNotDone ==
  \A r \in Reqs : AllBatchesThrew(r) => task[r].pc \notin {"jDoneJob", "finished"}

\* what the steps of a request that read a row of the given status do,
\* when a source subtitle is downloaded: the read does not answer the
\* request, the pending write rewrites the row, and the submission
\* launches a job
RetrySteps(status) ==
  \A r \in Reqs :
    /\ (req[r].pc = "cacheGet" /\ CachedStatus(cache, KeyOf(r)) = status /\ ReqStep(r))
       => /\ req'[r].pc \in {"osGet", "download"}
          /\ req'[r].cached = status
    /\ (req[r].cached = status /\ req[r].pc = "pendingPut" /\ ReqStep(r))
       => /\ req'[r].pc = "jobInsert"
          /\ KeyOf(r) \in DOMAIN cache'
          /\ cache'[KeyOf(r)] = Row(hashStr(req[r].originalText), <<>>, "pending")
    /\ (req[r].cached = status /\ req[r].pc = "jobInsert" /\ ReqStep(r))
       => /\ task'[r].pc = "jRunning"
          /\ task'[r].key = KeyOf(r)
          /\ req[r].jobId \in DOMAIN jobs'
          /\ jobs'[req[r].jobId].status = "pending"

\* a returned request that read a row of the given status was not answered
\* from the row, and with a source subtitle it got the placeholder of the
\* job it launched
RetryReturned(status) ==
  \A r \in Reqs :
    (req[r].cached = status /\ req[r].pc = "returned")
    => /\ ~ResultIs(r, "translated")
       /\ (req[r].phase \in {"en", "source"} /\ req[r].subtitleUrl # NONE)
          => /\ req[r].result = PlaceholderResult(req[r].jobId)
             /\ task[r].pc # "none"

\* C5: a request that reads an error row is not answered from it; with a
\* source subtitle downloaded (no target-language one) it rewrites the row
\* to pending, launches a new job and returns the placeholder.
C5_ErrorEntryRetried ==
  [][RetrySteps("error")]_vars /\ [](RetryReturned("error"))

C5_Witness ==
  \E r \in Reqs :
    /\ req[r].cached = "error"
    /\ task[r].pc = "finished"
    /\ DoneEntry(KeyOf(r))

\* C6: a request whose target-language search found a subtitle and whose
\* download gave its text stores that text as the done row of its key and
\* returns the subtitle's link, in a step that changes no job row and
\* starts no job; such a request never writes a pending row, never has a
\* job id and never launches a job.
C6_NativeSubtitleServed ==
  /\ [][\A r \in Reqs :
          (req[r].pc = "nativePut" /\ ReqStep(r))
          => /\ req'[r].pc = "returned"
             /\ req'[r].result = DirectResult(req[r].subtitleUrl)
             /\ KeyOf(r) \in DOMAIN cache'
             /\ cache'[KeyOf(r)]
                  = Row(hashStr(req[r].originalText), req[r].originalText, "done")
             /\ UNCHANGED <<task, jobs, limiter>>]_vars
  /\ [](\A r \in Reqs :
          (req[r].phase = "target" /\ req[r].subtitleUrl # NONE)
          => /\ req[r].pc \in {"osPut", "download", "nativePut", "returned",
                               "rejected", "dead"}
             /\ req[r].jobId = NoJobId
             /\ task[r].pc = "none"
             /\ req[r].pc = "returned" => req[r].result = DirectResult(req[r].subtitleUrl))

C6_Witness ==
  \E r \in Reqs :
    /\ req[r].pc = "returned"
    /\ req[r].cached = "absent"
    /\ req[r].result = DirectResult("zhUrl")
    /\ KeyOf(r) \in DOMAIN cache
    /\ cache[KeyOf(r)] = Row(hashStr(SrtZh), SrtZh, "done")
    /\ jobs = <<>>

SearchPcs == {"osGet", "osList", "osLink"}

\* C7: when the English search ends without a subtitle (nothing found, or
\* the search failed) the request returns the empty list in a step that
\* leaves translation_cache, jobs and the background jobs unchanged; no
\* step of a search writes translation_cache or jobs; and a request that
\* returned the empty list has no job id and launched no job.
C7_NotFoundReturnsEmpty ==
  /\ [][\A r \in Reqs :
          (req[r].phase = "en" /\ req[r].pc \in SearchPcs /\ ReqStep(r))
          => \/ req'[r].pc \in {"osList", "osLink", "osPut"}
             \/ req'[r].pc = "download" /\ req'[r].subtitleUrl # NONE
             \/ /\ req'[r].pc = "returned"
                /\ req'[r].result = EmptyResult
                /\ UNCHANGED <<task, cache, jobs>>]_vars
  /\ [][\A r \in Reqs :
          (req[r].pc \in SearchPcs \cup {"cacheGet", "osPut"} /\ ReqStep(r))
          => UNCHANGED <<task, cache, jobs>>]_vars
  /\ [](\A r \in Reqs :
          (req[r].pc = "returned" /\ req[r].phase = "en" /\ req[r].subtitleUrl = NONE)
          => /\ req[r].result = EmptyResult
             /\ req[r].jobId = NoJobId
             /\ task[r].pc = "none")

C7_Witness ==
  \E r \in Reqs :
    /\ req[r].pc = "returned"
    /\ req[r].phase = "en"
    /\ req[r].subtitleUrl = NONE
    /\ req[r].result = EmptyResult
    /\ KeyOf(r) \notin DOMAIN cache
    /\ jobs = <<>>

\* C8: a request at the job submission can always take its step, and that
\* step returns the placeholder while the job it starts has only begun;
\* a returned request never changes again, so whatever the job does later
\* (hangs, fails, completes) the request's result is the placeholder.
C8_PlaceholderWithoutWaiting ==
  /\ [](\A r \in Reqs : req[r].pc = "jobInsert" => ENABLED JobInsert(r))
  /\ [][\A r \in Reqs :
          (req[r].pc = "jobInsert" /\ ReqStep(r))
          => /\ req'[r].pc = "returned"
             /\ req'[r].result = PlaceholderResult(req[r].jobId)
             /\ task'[r].pc = "jRunning"]_vars
  /\ [][\A r \in Reqs : req[r].pc = "returned" => req'[r] = req[r]]_vars
  /\ [](\A r \in Reqs :
          task[r].pc # "none"
          => /\ req[r].pc = "returned"
             /\ req[r].result = PlaceholderResult(task[r].jobId))

C8_Witness ==
  \E r \in Reqs :
    /\ task[r].pc = "failed"
    /\ req[r].pc = "returned"
    /\ req[r].result = PlaceholderResult(task[r].jobId)

JobEnded(t) == t.pc \in {"finished", "failed"}

\* C9: at the step that ends a job in which an exception was raised (a
\* translation call threw, or an awaited statement of the try block
\* rejected), the row of the job's key is error with an empty artifact and
\* the job row is error with the exception's message.
C9_ExceptionEndsInError ==
  [][\A r \in Reqs :
       (~JobEnded(task[r]) /\ JobEnded(task'[r])
          /\ (task'[r].threw > 0 \/ task'[r].message # NONE))
       => /\ task[r].key \in DOMAIN cache' /\ task[r].jobId \in DOMAIN jobs'
          /\ cache'[task[r].key].status = "error"
          /\ cache'[task[r].key].srt = <<>>
          /\ jobs'[task[r].jobId].status = "error"
          /\ jobs'[task[r].jobId].message # NONE]_vars

\* C10: a request that reads a pending row is not blocked by it, whether
\* or not a job for the key is still in flight: with a source subtitle
\* downloaded it rewrites the row to pending, launches a new job and
\* returns the placeholder.
C10_PendingEntryNotABlock ==
  [][RetrySteps("pending")]_vars /\ [](RetryReturned("pending"))

\* a request served after the process restarted found the pending row the
\* stopped job left (no job was in flight), and its own job ended in done
C10_Witness ==
  \E r \in Reqs :
    /\ req[r].epoch = 1
    /\ req[r].cached = "pending"
    /\ \A o \in Reqs \ {r} : task[o].pc = "dead"
    /\ task[r].pc = "finished"
    /\ DoneEntry(KeyOf(r))


\* ------------------------------------------------------- claims: batcher
\* the output a faithful backend produces for input i
OutputFor(i) == Translate(Trim(batcher.sentences[i]))

\* C11: the sequence batchTranslateSentences returns has the length of the
\* input, and position i holds the output produced for input i or the empty
\* string, whatever the engine and the answers of the backend.
C11_IndexAligned ==
  batcher.pc = "returned" =>
    /\ Len(batcher.results) = Len(batcher.sentences)
    /\ \A i \in 1..Len(batcher.sentences) :
         Trim(batcher.results[i]) \in {<<>>, OutputFor(i)}

\* --------------------------------------------------------- claims: codec
\* C12: the cues parseSRT returns are in ascending order of startMs.
C12_ParsedSorted ==
  codec.pc \in {"parsed", "built", "reparsed"} =>
    \A i, j \in 1..Len(codec.cues) :
      i < j => codec.cues[i].startMs <= codec.cues[j].startMs

\* cue i of the second parse is cue i of the first: same start, end and
\* text, and the same identifier unless the first had none, which becomes
\* the position
SameCue(c, d, i) ==
  /\ d.start = c.start
  /\ d.end = c.end
  /\ d.text = c.text
  /\ d.id = IF c.id = <<>> THEN NatToStr(i) ELSE c.id

SameCues(cs, ds) ==
  /\ Len(ds) = Len(cs)
  /\ \A i \in 1..Len(cs) : SameCue(cs[i], ds[i], i)

HasCR(str) == \E i \in 1..Len(str) : str[i] = CR

\* no identifier, time or text of the cues holds a carriage return
NoCR(cs) ==
  \A i \in 1..Len(cs) :
    ~HasCR(cs[i].id) /\ ~HasCR(cs[i].start) /\ ~HasCR(cs[i].end) /\ ~HasCR(cs[i].text)

\* C13 as stated: for every cue sequence c that parseSRT produces,
\* parseSRT(buildSRT(c)) has the same cues in the same order, up to the
\* identifiers that were empty.
C13_RoundTrip ==
  codec.pc = "reparsed" => SameCues(codec.cues, codec.again)

\* C13, amended: for every cue sequence c that parseSRT produces and that
\* holds no carriage return, parseSRT(buildSRT(c)) has the same cues in the
\* same order, up to the identifiers that were empty.
C13_RoundTripNoCR ==
  (codec.pc = "reparsed" /\ NoCR(codec.cues)) => SameCues(codec.cues, codec.again)

\* two cues without carriage return went through the round trip: the first
\* had no identifier and got its position, the second has a text of two
\* lines, the second parse equals the first up to that identifier
C13_Witness ==
  /\ codec.pc = "reparsed"
  /\ NoCR(codec.cues)
  /\ Len(codec.cues) = 2
  /\ codec.cues[1].id = <<>>
  /\ codec.again[1].id = <<"1">>
  /\ codec.cues[2].text = <<"a", NL, "b">>
  /\ codec.again[2].text = <<"a", NL, "b">>


\* --------------------------------------------------------- claims: addon
\* the callers of outbound calls: handlers and background jobs
Callers == {ReqCaller(r) : r \in Reqs} \cup {JobCaller(r) : r \in Reqs}

\* the caller awaits an outbound call: a search, a download link, a
\* download, or the translation of a batch
AwaitsCall(c) ==
  IF c[1] = "req" THEN req[c[2]].pc \in {"osList", "osLink", "download"}
  ELSE task[c[2]].pc = "jFlush"

\* the caller's awaited call resolves in this step
CallResolves(c) ==
  /\ AwaitsCall(c)
  /\ IF c[1] = "req" THEN ReqStep(c[2])
     ELSE task'[c[2]] # task[c[2]] /\ task'[c[2]].pc # "dead"

\* C14: every outbound call of every handler and job is scheduled through
\* the one limiter (a caller awaits a call exactly when it stands in the
\* limiter's queue, once), and only the call at the head of the queue is in
\* flight: a call resolves only at the head, so at most one call is in
\* flight in every state.
C14_OneCallInFlight ==
  /\ [](/\ \A i \in 1..Len(limiter) : limiter[i] \in Callers /\ AwaitsCall(limiter[i])
        /\ \A i, j \in 1..Len(limiter) : limiter[i] = limiter[j] => i = j
        /\ \A c \in Callers : AwaitsCall(c) => \E i \in 1..Len(limiter) : limiter[i] = c)
  /\ [][\A c \in Callers : CallResolves(c) => (limiter # <<>> /\ Head(limiter) = c)]_vars

\* a translation call of a job is in flight while the download of a
\* handler waits behind it in the queue
C14_Witness ==
  /\ Len(limiter) = 2
  /\ Head(limiter)[1] = "job"
  /\ task[Head(limiter)[2]].pc = "jFlush"
  /\ limiter[2][1] = "req"
  /\ req[limiter[2][2]].pc = "download"

\* C15: every row of translation_cache with status done has a non-empty
\* artifact, and every row with status pending or error has an empty one.
C15_ArtifactMatchesStatus ==
  \A k \in DOMAIN cache :
    /\ cache[k].status = "done" => cache[k].srt # <<>>
    /\ cache[k].status \in {"pending", "error"} => cache[k].srt = <<>>

\* C16: at the step that sets a job's row to done the row of the job's key
\* in translation_cache is done, and at the step that sets it to error that
\* row is error.
C16_JobStatusAgreesWithEntry ==
  [][\A r \in Reqs :
       /\ (task[r].pc = "jDoneJob" /\ task'[r].pc = "finished")
          => (task[r].key \in DOMAIN cache' /\ cache'[task[r].key].status = "done")
       /\ (task[r].pc = "jErrJob" /\ task'[r].pc = "failed")
          => (task[r].key \in DOMAIN cache' /\ cache'[task[r].key].status = "error")]_vars


\* ------------------------------------------------ claims: batcher, batches
\* the backend call of the k-th batch sent failed: it threw, or its response
\* carried no data
BatchFailed(k) ==
  \/ batcher.sent[k].answer.kind = "throw"
  \/ batcher.sent[k].answer = TextAnswer(<<>>)
  \/ batcher.sent[k].answer = ListAnswer(<<>>)

\* the outputs the response to the k-th batch sent carries
BatchOutputs(k) ==
  LET b == batcher.sent[k]
  IN  IF b.answer.kind = "list" THEN b.answer.arr
      ELSE IF b.answer.kind = "text" THEN SplitOn(b.answer.joined, <<NL>>)
      ELSE <<>>

\* the response to the k-th batch sent has one output per text of the batch
BatchAnswered(k) == Len(BatchOutputs(k)) = Len(batcher.sent[k].batch)

\* C17: the outputs at the indices of a batch whose backend call failed are
\* empty strings; the outputs of every batch answered with one output per
\* text are stored at the batch's indices, whether batches before it
\* failed or not; the batches are sent in the order of the input, every
\* non-blank text in exactly one of them by the time the batcher returns;
\* and after every flush, failed or not, the batcher is at its next flush
\* or has returned.
C17_BatchFailureContained ==
  /\ \A k \in 1..Len(batcher.sent) :
       LET idx  == batcher.sent[k].idxBatch
           outs == BatchOutputs(k)
       IN  /\ BatchFailed(k) => \A j \in 1..Len(idx) : batcher.results[idx[j]] = <<>>
           /\ (~BatchFailed(k) /\ Len(outs) = Len(idx))
              => \A j \in 1..Len(idx) : batcher.results[idx[j]] = outs[j]
           /\ \A j \in 1..Len(idx) : batcher.sent[k].batch[j] = Trim(batcher.sentences[idx[j]])
           /\ \A j \in 1..(Len(idx) - 1) : idx[j] < idx[j + 1]
           /\ k > 1 => batcher.sent[k - 1].idxBatch[Len(batcher.sent[k - 1].idxBatch)] < idx[1]
  /\ batcher.pc = "returned"
     => \A i \in 1..Len(batcher.sentences) :
          Trim(batcher.sentences[i]) # <<>>
          <=> \E k \in 1..Len(batcher.sent) :
                \E j \in 1..Len(batcher.sent[k].idxBatch) : batcher.sent[k].idxBatch[j] = i
  /\ batcher.pc \in {"called", "flush", "returned"}
  /\ batcher.pc = "called" => batcher.sent = <<>>

\* the batcher returned after three batches: the call of the first threw
\* and its output is empty, the other two were answered and stored
C17_Witness ==
  /\ batcher.pc = "returned"
  /\ Len(batcher.sent) = 3
  /\ batcher.sent[1].answer.kind = "throw"
  /\ batcher.results[batcher.sent[1].idxBatch[1]] = <<>>
  /\ \A k \in 2..3 :
       /\ ~BatchFailed(k) /\ BatchAnswered(k)
       /\ batcher.results[batcher.sent[k].idxBatch[1]] = Translate(batcher.sent[k].batch[1])

\* the characters a batch counts against the budget: each text and one more
RECURSIVE BatchChars(_)
BatchChars(batch) ==
  IF batch = <<>> THEN 0 ELSE Len(Head(batch)) + 1 + BatchChars(Tail(batch))

\* C18: every batch sent to a backend is within the budget: the sum over
\* its texts of (length + 1) is at most maxChars.
C18_BatchWithinBudget ==
  \A k \in 1..Len(batcher.sent) : BatchChars(batcher.sent[k].batch) <= maxChars


\* ------------------------------------------------ claims: the job's artifact
\* the job of r has written its done row
StoredDone(r) == task[r].pc \in {"jDoneJob", "finished"}

\* cue i of the artifact of r's job is cue i of the source with the
\* translation as its text when there is one, and the original text if not
CueCarried(r, i) ==
  LET b == parseSRT(task[r].subtitleText)[i]
      c == parseSRT(task[r].finalSrt)[i]
  IN  /\ c.id = (IF b.id = <<>> THEN NatToStr(i) ELSE b.id)
      /\ c.start = b.start
      /\ c.end = b.end
      /\ c.text = (IF task[r].results[i] # <<>> THEN task[r].results[i] ELSE b.text)

\* C19: the artifact a job stores as done has the cues of the source, cue i
\* with the translation of cue i when it is non-empty and with the original
\* text otherwise, identifier and times unchanged; and none of its cues
\* has an empty text.
C19_DoneArtifactCues ==
  \A r \in Reqs :
    StoredDone(r)
    => /\ Len(parseSRT(task[r].finalSrt)) = Len(parseSRT(task[r].subtitleText))
       /\ \A i \in 1..Len(parseSRT(task[r].subtitleText)) :
            /\ CueCarried(r, i)
            /\ parseSRT(task[r].finalSrt)[i].text # <<>>


\* ---------------------------------------------- claims: batcher, delimiter
\* C20: for the free-tier engine, splitting the joined request text of a
\* batch on the delimiter gives back the batch: as many texts, and the same
\* texts.
C20_DelimiterRoundTrip ==
  \A k \in 1..Len(batcher.sent) :
    batcher.engine = "google_free"
    => SplitOn(Join(batcher.sent[k].batch, <<NL>>), <<NL>>) = batcher.sent[k].batch


\* ------------------------------------------------------ claims: liveness
\* the row of the job of r in table jobs has a terminal status
JobRowTerminal(r) ==
  /\ task[r].jobId \in DOMAIN jobs
  /\ jobs[task[r].jobId].status \in {"done", "error"}

NoPendingEntry == \A k \in DOMAIN cache : cache[k].status # "pending"

\* the job row of request r gets status done or error in this step
JobRowEnds(r) == ~JobRowTerminal(r) /\ JobRowTerminal(r)'

\* C21: with every call and write returning or failing and a fair
\* scheduler, the job row of every launched job eventually has status done
\* or error, it gets that status only when its status is running, and
\* eventually no row of translation_cache is pending any more (the requests
\* are finitely many).
C21_JobsEndAndPendingClears ==
  /\ \A r \in Reqs : (task[r].pc = "jRunning") ~> JobRowTerminal(r)
  /\ [][\A r \in Reqs : JobRowEnds(r) =>
          /\ task[r].jobId \in DOMAIN jobs
          /\ jobs[task[r].jobId].status = "running"]_vars
  /\ <>[]NoPendingEntry

=============================================================================
